---------------------------- MODULE Spec2Model ----------------------------
(***************************************************************************)
(* A model of src/pi.py: calculate_pi_ramanujan and the interactive entry  *)
(* point.  Python's int is an arbitrary-precision integer and Decimal an   *)
(* arbitrary-precision decimal floating-point number; both are modelled on *)
(* sequences of decimal digits (most significant digit first), so that the *)
(* rounding of every Decimal operation to the context's precision is       *)
(* computed digit by digit, as the decimal module computes it.             *)
(***************************************************************************)
EXTENDS Integers, Sequences, FiniteSets, TLC

(***************************************************************************)
(* Arbitrary-precision naturals: a non-empty sequence of digits without    *)
(* leading zeros; zero is <<0>>.                                           *)
(***************************************************************************)
\* Evaluated(x): TRUE, once x has a value.  A recursion tests it on what it
\* passes on, so that each step is computed before the next one starts.
Evaluated(x) == x = x

RECURSIVE Strip(_)
Strip(a) == IF Len(a) > 1 /\ a[1] = 0 THEN Strip(Tail(a))
            ELSE IF Len(a) = 0 THEN <<0>> ELSE a

Zeros(n) == [i \in 1..n |-> 0]

PadLeft(a, n) == IF Len(a) >= n THEN a ELSE Zeros(n - Len(a)) \o a

Max(x, y) == IF x >= y THEN x ELSE y

Min(x, y) == IF x <= y THEN x ELSE y

IsZero(a) == \A i \in 1..Len(a) : a[i] = 0

RECURSIVE NatOfInt(_)
NatOfInt(n) == IF n < 10 THEN <<n>> ELSE Append(NatOfInt(n \div 10), n % 10)

\* -1, 0, 1 as a < b, a = b, a > b; a and b are stripped
RECURSIVE CmpFrom(_, _, _)
CmpFrom(a, b, i) ==
    IF i > Len(a) THEN 0
    ELSE IF a[i] < b[i] THEN -1
    ELSE IF a[i] > b[i] THEN 1
    ELSE CmpFrom(a, b, i + 1)

NCmp(a, b) == IF Len(a) < Len(b) THEN -1
              ELSE IF Len(a) > Len(b) THEN 1
              ELSE CmpFrom(a, b, 1)

RECURSIVE AddRec(_, _, _, _)
AddRec(a, b, i, carry) ==
    IF i = 0 THEN (IF carry = 0 THEN <<>> ELSE <<carry>>)
    ELSE LET s == a[i] + b[i] + carry
         IN  IF Evaluated(s) THEN Append(AddRec(a, b, i - 1, s \div 10), s % 10)
             ELSE <<>>

NAdd(a, b) == LET n == Max(Len(a), Len(b))
              IN  Strip(AddRec(PadLeft(a, n), PadLeft(b, n), n, 0))

\* a - b for a >= b
RECURSIVE SubRec(_, _, _, _)
SubRec(a, b, i, borrow) ==
    IF i = 0 THEN <<>>
    ELSE LET s == a[i] - b[i] - borrow
         IN  IF s < 0 THEN Append(SubRec(a, b, i - 1, 1), s + 10)
             ELSE Append(SubRec(a, b, i - 1, 0), s)

NSub(a, b) == Strip(SubRec(a, PadLeft(b, Len(a)), Len(a), 0))

\* a * m for a machine-size m (m < 10^7)
RECURSIVE MulSmallRec(_, _, _, _)
MulSmallRec(a, m, i, carry) ==
    IF i = 0 THEN (IF carry = 0 THEN <<>> ELSE NatOfInt(carry))
    ELSE LET s == a[i] * m + carry
         IN  IF Evaluated(s) THEN Append(MulSmallRec(a, m, i - 1, s \div 10), s % 10)
             ELSE <<>>

NMulSmall(a, m) == Strip(MulSmallRec(a, m, Len(a), 0))

\* a * 10^n
Shift(a, n) == IF IsZero(a) THEN a ELSE a \o Zeros(n)

RECURSIVE MulRec(_, _, _)
MulRec(a, b, i) ==
    IF i = 0 THEN <<0>>
    ELSE LET prev == MulRec(a, b, i - 1)
         IN  IF Evaluated(prev) THEN NAdd(Shift(prev, 1), NMulSmall(a, b[i]))
             ELSE prev

NMul(a, b) == MulRec(a, b, Len(b))

RECURSIVE NPow(_, _)
NPow(a, n) == IF n = 0 THEN <<1>>
              ELSE LET prev == NPow(a, n - 1)
                   IN  IF Evaluated(prev) THEN NMul(prev, a) ELSE prev

\* the largest d with d * b <= r, and r - d * b
RECURSIVE CountSub(_, _, _)
CountSub(r, b, d) ==
    IF NCmp(r, b) < 0 THEN <<d, r>>
    ELSE LET r1 == NSub(r, b)
         IN  IF Evaluated(r1) THEN CountSub(r1, b, d + 1) ELSE <<d, r>>

\* <<a \div b, a % b>> by long division, b > 0
RECURSIVE DivRec(_, _, _, _, _)
DivRec(a, b, i, q, r) ==
    IF i > Len(a) THEN <<Strip(q), r>>
    ELSE LET step == CountSub(Strip(Append(r, a[i])), b, 0)
             q1   == Append(q, step[1])
         IN  IF Evaluated(q1) THEN DivRec(a, b, i + 1, q1, step[2])
             ELSE <<q, r>>

NDivMod(a, b) == DivRec(a, b, 1, <<>>, <<0>>)

\* the integer square root of c, two digits of c per digit of the root
RECURSIVE SqrtDigit(_, _, _)
SqrtDigit(root, rem, d) ==
    LET t == NMulSmall(NAdd(NMulSmall(root, 20), <<d>>), d)
    IN  IF NCmp(t, rem) <= 0 THEN <<d, NSub(rem, t)>>
        ELSE SqrtDigit(root, rem, d - 1)

RECURSIVE SqrtRec(_, _, _, _)
SqrtRec(c, i, root, rem) ==
    IF i > Len(c) THEN root
    ELSE LET r1   == Strip(rem \o <<c[i], c[i + 1]>>)
             step == SqrtDigit(root, r1, 9)
             next == Strip(Append(root, step[1]))
         IN  IF Evaluated(next) THEN SqrtRec(c, i + 2, next, step[2])
             ELSE root

NSqrt(c) == SqrtRec(IF Len(c) % 2 = 1 THEN <<0>> \o c ELSE c, 1, <<0>>, <<0>>)

RECURSIVE Factorial(_)
Factorial(n) == IF n <= 1 THEN <<1>>
                ELSE LET prev == Factorial(n - 1)
                     IN  IF Evaluated(prev) THEN NMulSmall(prev, n) ELSE prev

(***************************************************************************)
(* Decimal: a non-negative decimal floating-point number int * 10^exp, as  *)
(* the decimal module holds it (coefficient digits and exponent).  Every   *)
(* operation takes the precision of the context it runs under and rounds   *)
(* its exact result to that many significant digits, ROUND_HALF_EVEN (the  *)
(* default rounding of a context, which pi.py never changes).              *)
(***************************************************************************)
Dec(c, e) == [int |-> c, exp |-> e]

\* Decimal(n) for a Python int n >= 0 held as a digit sequence: exact
DecOfNat(n) == Dec(n, 0)

\* Decimal._round_half_even: 1 to round the first `keep` digits up, else 0 or -1
RoundHalfEven(c, keep) ==
    LET rest       == SubSeq(c, keep + 1, Len(c))
        exact_half == rest[1] = 5 /\ IsZero(Tail(rest))
    IN  IF exact_half /\ (keep = 0 \/ c[keep] % 2 = 0) THEN -1
        ELSE IF rest[1] >= 5 THEN 1
        ELSE IF IsZero(rest) THEN 0
        ELSE -1

\* Decimal._fix: round to the context's precision
DecFix(d, prec) ==
    LET exp_min == Len(d.int) + d.exp - prec
    IN  IF IsZero(d.int) \/ d.exp >= exp_min THEN d
        ELSE LET changed == RoundHalfEven(d.int, prec)
                 coeff   == SubSeq(d.int, 1, prec)
                 up      == NAdd(coeff, <<1>>)
             IN  IF changed <= 0 THEN Dec(coeff, exp_min)
                 ELSE IF Len(up) > prec
                      THEN Dec(SubSeq(up, 1, Len(up) - 1), exp_min + 1)
                      ELSE Dec(up, exp_min)

\* Decimal._rescale to exponent e (e <= d.exp pads zeros, else rounds half even)
DecRescale(d, e) ==
    IF IsZero(d.int) THEN Dec(<<0>>, e)
    ELSE IF d.exp >= e THEN Dec(d.int \o Zeros(d.exp - e), e)
    ELSE LET digits == Len(d.int) + d.exp - e
             src    == IF digits < 0 THEN <<1>> ELSE d.int
             keep   == Max(digits, 0)
             coeff  == Strip(SubSeq(src, 1, keep))
         IN  IF RoundHalfEven(src, keep) = 1
             THEN Dec(NAdd(coeff, <<1>>), e) ELSE Dec(coeff, e)

\* Decimal.__mul__
DecMul(a, b, prec) ==
    IF IsZero(a.int) \/ IsZero(b.int) THEN Dec(<<0>>, a.exp + b.exp)
    ELSE DecFix(Dec(NMul(a.int, b.int), a.exp + b.exp), prec)

\* Decimal.__add__
DecAdd(a, b, prec) ==
    LET exp == Min(a.exp, b.exp)
    IN  IF IsZero(a.int) /\ IsZero(b.int) THEN Dec(<<0>>, exp)
        ELSE IF IsZero(a.int)
             THEN DecFix(DecRescale(b, Max(exp, b.exp - prec - 1)), prec)
        ELSE IF IsZero(b.int)
             THEN DecFix(DecRescale(a, Max(exp, a.exp - prec - 1)), prec)
        ELSE DecFix(Dec(NAdd(Shift(a.int, a.exp - exp), Shift(b.int, b.exp - exp)),
                        exp), prec)

\* Decimal.__sub__ of the smaller from the larger, i.e. abs(a - b)
DecAbsDiff(a, b, prec) ==
    LET exp == Min(a.exp, b.exp)
        x   == Shift(a.int, a.exp - exp)
        y   == Shift(b.int, b.exp - exp)
    IN  IF NCmp(Strip(x), Strip(y)) >= 0
        THEN DecFix(Dec(NSub(Strip(x), Strip(y)), exp), prec)
        ELSE DecFix(Dec(NSub(Strip(y), Strip(x)), exp), prec)

\* strip trailing zeros of an exact quotient while the exponent is below ideal
RECURSIVE ToIdeal(_, _, _)
ToIdeal(c, e, ideal) ==
    IF e < ideal /\ Len(c) > 1 /\ c[Len(c)] = 0
    THEN ToIdeal(SubSeq(c, 1, Len(c) - 1), e + 1, ideal)
    ELSE Dec(c, e)

\* Decimal.__truediv__ for a divisor that is not zero
DecDiv(a, b, prec) ==
    IF IsZero(a.int) THEN Dec(<<0>>, a.exp - b.exp)
    ELSE LET shift == Len(b.int) - Len(a.int) + prec + 1
             exp   == a.exp - b.exp - shift
             qr    == IF shift >= 0
                      THEN NDivMod(Shift(a.int, shift), b.int)
                      ELSE NDivMod(a.int, Shift(b.int, -shift))
             coeff == qr[1]
         IN  IF ~IsZero(qr[2])
             THEN DecFix(Dec(IF coeff[Len(coeff)] % 5 = 0
                             THEN NAdd(coeff, <<1>>) ELSE coeff, exp), prec)
             ELSE DecFix(ToIdeal(coeff, exp, a.exp - b.exp), prec)

\* Decimal.sqrt of a positive one-digit integer (Decimal(2) is its only use)
DecSqrt(a, prec) ==
    LET shift == prec
        c     == Shift(a.int, 2 * shift)
        n     == NSqrt(c)
        exact == NCmp(NMul(n, n), c) = 0
    IN  IF exact THEN DecFix(Dec(SubSeq(n, 1, Len(n) - shift), 0), prec)
        ELSE DecFix(Dec(IF n[Len(n)] % 5 = 0 THEN NAdd(n, <<1>>) ELSE n,
                        -shift), prec)

\* (a variant that keeps every digit of the power, as int ** int does)
DecPowExact(a, n, prec) == Dec(NPow(a.int, n), a.exp * n)

\* Decimal.__pow__ with a non-negative int exponent, base a positive integer
DecPow(a, n, prec) == DecFix(Dec(NPow(a.int, n), a.exp * n), prec)

(***************************************************************************)
(* Text: a Python str is a sequence of one-character strings.              *)
(***************************************************************************)
DigitChars == <<"0", "1", "2", "3", "4", "5", "6", "7", "8", "9">>

IsDigitChar(c) == \E d \in 1..10 : DigitChars[d] = c

DigitOf(c) == (CHOOSE d \in 1..10 : DigitChars[d] = c) - 1

\* str(n) of an int, which '{}'.format(n) inserts
FormatInt(n) ==
    LET ds == NatOfInt(IF n < 0 THEN -n ELSE n)
        cs == [i \in 1..Len(ds) |-> DigitChars[ds[i] + 1]]
    IN  IF n < 0 THEN <<"-">> \o cs ELSE cs

\* the value of a run of digit characters
RECURSIVE ValueOf(_)
ValueOf(cs) == IF Len(cs) = 0 THEN 0
               ELSE 10 * ValueOf(SubSeq(cs, 1, Len(cs) - 1)) + DigitOf(cs[Len(cs)])

AllDigits(cs) == Len(cs) > 0 /\ \A i \in 1..Len(cs) : IsDigitChar(cs[i])

\* '1e-{}'.format(precision)
QuantizeText(precision) == <<"1", "e", "-">> \o FormatInt(precision)

\* Decimal(text) for a text that starts "1e": the exponent is an optional sign
\* and one or more digits; anything else is a ConversionSyntax error
DecimalOfText(text) ==
    LET rest   == SubSeq(text, 3, Len(text))
        signed == Len(rest) > 0 /\ rest[1] \in {"-", "+"}
        digs   == IF signed THEN Tail(rest) ELSE rest
    IN  IF ~AllDigits(digs) THEN [ok |-> FALSE, val |-> Dec(<<>>, 0)]
        ELSE [ok  |-> TRUE,
              val |-> Dec(<<1>>, IF signed /\ rest[1] = "-"
                                 THEN -ValueOf(digs) ELSE ValueOf(digs))]

\* Decimal.quantize: ok is FALSE where it signals InvalidOperation
DecQuantize(a, e, prec) ==
    LET ans == DecRescale(a, e.exp)
    IN  IF Len(a.int) + a.exp - 1 - e.exp + 1 > prec \/ Len(ans.int) > prec
        THEN [ok |-> FALSE, val |-> Dec(<<>>, 0)]
        ELSE [ok |-> TRUE, val |-> ans]

(***************************************************************************)
(* The program state.  Each thread has its own frame of                    *)
(* calculate_pi_ramanujan and, as decimal.getcontext() is per thread, its  *)
(* own arithmetic context.                                                 *)
(***************************************************************************)
Threads == {1, 2}

Unbound == Dec(<<>>, 0)

NoResult == [kind |-> "none", val |-> Unbound, exc |-> ""]

Returned(v) == [kind |-> "value", val |-> v, exc |-> ""]

Raised(e) == [kind |-> "raise", val |-> Unbound, exc |-> e]

EmptyFrame ==
    [iterations |-> 0, precision |-> 0, k |-> 0, range_pos |-> 0,
     sum_val |-> Unbound, constant_multiplier |-> Unbound,
     numerator_term |-> Unbound, denominator_factorial_pow |-> Unbound,
     denominator_power_term |-> Unbound, denominator_term |-> Unbound,
     current_term |-> Unbound, one_over_pi |-> Unbound, pi_approx |-> Unbound]

VARIABLES
    pc,          \* pc[t]: the line thread t is about to run, or idle/returned/raised
    frame,       \* frame[t]: arguments and locals of t's call
    ctx,         \* ctx[c]: the precision (prec) of arithmetic context c
    result,      \* result[t]: what t's call returned or raised
    precBefore,  \* precBefore[t]: the context precision t's caller saw before the call
    used,        \* used[t]: the precisions the call's Decimal operations ran under
    added,       \* added[t]: the indices k whose term was added to sum_val, in order
    calls,       \* calls[t]: the number of calls t has made
    history,     \* the completed calls in order: arguments and outcome of each
    mpc,         \* the line the __main__ block is about to run
    exc,         \* the exception being raised in the __main__ block, or ""
    line1,       \* the text read at the first prompt
    line2,       \* the text read at the second prompt
    num_iterations,
    desired_precision,
    calculated_pi,
    known_pi,
    error,
    out          \* what the __main__ block has printed or prompted, in order

mainVars == <<mpc, exc, line1, line2, num_iterations, desired_precision,
              calculated_pi, known_pi, error, out>>

vars == <<pc, frame, ctx, result, precBefore, used, added, calls, history,
          mainVars>>

\* the precision of a fresh context (decimal.DefaultContext)
DefaultPrec == 28

Init ==
    /\ pc = [t \in Threads |-> "idle"]
    /\ frame = [t \in Threads |-> EmptyFrame]
    /\ ctx = [t \in Threads |-> DefaultPrec]
    /\ result = [t \in Threads |-> NoResult]
    /\ precBefore = [t \in Threads |-> DefaultPrec]
    /\ used = [t \in Threads |-> {}]
    /\ added = [t \in Threads |-> <<>>]
    /\ calls = [t \in Threads |-> 0]
    /\ history = <<>>
    /\ mpc = "L53"
    /\ exc = ""
    /\ line1 = <<>>
    /\ line2 = <<>>
    /\ num_iterations = 0
    /\ desired_precision = 0
    /\ calculated_pi = Unbound
    /\ known_pi = Unbound
    /\ error = Unbound
    /\ out = <<>>

\* (a variant in which every thread gets the one context of the process)
SharedContext(t) == 1

\* getcontext(): the context of the calling thread
ContextOf(t) == t

\* the precision a Decimal operation of thread t runs under
Prec(t) == ctx[ContextOf(t)]

\* (variants of the buffer: none, and the 5 the comment of line 19 offers)
WorkingPrecNoBuffer(precision) == precision

WorkingPrecFive(precision) == precision + 5

\* precision + 10
WorkingPrec(precision) == precision + 10

\* (a variant that never raises the precision it finds)
NewPrecKeepLower(t) == Min(Prec(t), WorkingPrec(frame[t].precision))

\* the value line 21 assigns to getcontext().prec
NewPrec(t) == WorkingPrec(frame[t].precision)

\* (a variant that starts at 1)
RangeFromOne(n) == [i \in 1..(n - 1) |-> i]

\* range(n) as the sequence of its values
Range(n) == [i \in 1..n |-> i - 1]

\* (a variant with the two constants exchanged)
NumeratorLinearSwapped(k) == 26390 + 1103 * k

\* 1103 + 26390 * k
NumeratorLinear(k) == 1103 + 26390 * k

\* calculate_pi_ramanujan(it, p) is entered
Enter(t, it, p) ==
    /\ pc[t] = "idle"
    /\ pc' = [pc EXCEPT ![t] = "L21"]
    /\ frame' = [frame EXCEPT ![t] = [EmptyFrame EXCEPT !.iterations = it,
                                                        !.precision = p]]
    /\ precBefore' = [precBefore EXCEPT ![t] = Prec(t)]
    /\ result' = [result EXCEPT ![t] = NoResult]
    /\ used' = [used EXCEPT ![t] = {}]
    /\ added' = [added EXCEPT ![t] = <<>>]
    /\ UNCHANGED ctx

\* line 21: getcontext().prec = precision + 10 (the setter rejects prec < 1)
SetPrec(t) ==
    /\ pc[t] = "L21"
    /\ IF NewPrec(t) < 1
       THEN /\ pc' = [pc EXCEPT ![t] = "raised"]
            /\ result' = [result EXCEPT ![t] = Raised("ValueError")]
            /\ UNCHANGED ctx
       ELSE /\ pc' = [pc EXCEPT ![t] = "L23"]
            /\ ctx' = [ctx EXCEPT ![ContextOf(t)] = NewPrec(t)]
            /\ UNCHANGED result
    /\ UNCHANGED <<frame, precBefore, used, added, calls, history, mainVars>>

\* line 23: sum_val = Decimal(0)
SumInit(t) ==
    /\ pc[t] = "L23"
    /\ frame' = [frame EXCEPT ![t].sum_val = DecOfNat(<<0>>)]
    /\ pc' = [pc EXCEPT ![t] = "L27"]
    /\ UNCHANGED <<ctx, result, precBefore, used, added, calls, history, mainVars>>

\* line 27: constant_multiplier = (Decimal(2) * Decimal(2).sqrt()) / Decimal(9801)
ConstantMultiplier(t) ==
    /\ pc[t] = "L27"
    /\ frame' = [frame EXCEPT ![t].constant_multiplier =
                    DecDiv(DecMul(DecOfNat(<<2>>), DecSqrt(DecOfNat(<<2>>), Prec(t)),
                                  Prec(t)),
                           DecOfNat(<<9, 8, 0, 1>>), Prec(t))]
    /\ used' = [used EXCEPT ![t] = @ \cup {Prec(t)}]
    /\ pc' = [pc EXCEPT ![t] = "L30"]
    /\ UNCHANGED <<ctx, result, precBefore, added, calls, history, mainVars>>

\* line 30: for k in range(iterations): the next k, or the end of the loop
LoopNext(t) ==
    /\ pc[t] = "L30"
    /\ LET r == Range(frame[t].iterations)
           i == frame[t].range_pos
       IN  IF i < Len(r)
           THEN /\ frame' = [frame EXCEPT ![t].k = r[i + 1], ![t].range_pos = i + 1]
                /\ pc' = [pc EXCEPT ![t] = "L32"]
           ELSE /\ pc' = [pc EXCEPT ![t] = "L46"]
                /\ UNCHANGED frame
    /\ UNCHANGED <<ctx, result, precBefore, used, added, calls, history, mainVars>>

\* lines 32-42: the locals of one pass of the loop body, for index k under
\* precision P
TermLocals(k, P) ==
    LET numerator_factorial == DecOfNat(Factorial(4 * k))
        numerator_linear    == DecOfNat(NatOfInt(NumeratorLinear(k)))
        numerator_term      == DecMul(numerator_factorial, numerator_linear, P)
        denominator_factorial_pow == DecPow(DecOfNat(Factorial(k)), 4, P)
        denominator_power_term    == DecPow(DecOfNat(<<3, 9, 6>>), 4 * k, P)
        denominator_term == DecMul(denominator_factorial_pow,
                                   denominator_power_term, P)
    IN  [numerator_term            |-> numerator_term,
         denominator_factorial_pow |-> denominator_factorial_pow,
         denominator_power_term    |-> denominator_power_term,
         denominator_term          |-> denominator_term,
         current_term |-> DecDiv(numerator_term, denominator_term, P)]

\* lines 32-43: the term of index k is computed and added to sum_val
Term(t) ==
    /\ pc[t] = "L32"
    /\ LET loc == TermLocals(frame[t].k, Prec(t))
       IN  frame' = [frame EXCEPT
                ![t].numerator_term = loc.numerator_term,
                ![t].denominator_factorial_pow = loc.denominator_factorial_pow,
                ![t].denominator_power_term = loc.denominator_power_term,
                ![t].denominator_term = loc.denominator_term,
                ![t].current_term = loc.current_term,
                ![t].sum_val = DecAdd(frame[t].sum_val, loc.current_term, Prec(t))]
    /\ used' = [used EXCEPT ![t] = @ \cup {Prec(t)}]
    /\ added' = [added EXCEPT ![t] = Append(@, frame[t].k)]
    /\ pc' = [pc EXCEPT ![t] = "L30"]
    /\ UNCHANGED <<ctx, result, precBefore, calls, history, mainVars>>

\* line 46: one_over_pi = constant_multiplier * sum_val
OneOverPi(t) ==
    /\ pc[t] = "L46"
    /\ frame' = [frame EXCEPT ![t].one_over_pi =
                    DecMul(frame[t].constant_multiplier, frame[t].sum_val, Prec(t))]
    /\ used' = [used EXCEPT ![t] = @ \cup {Prec(t)}]
    /\ pc' = [pc EXCEPT ![t] = "L47"]
    /\ UNCHANGED <<ctx, result, precBefore, added, calls, history, mainVars>>

\* line 47: pi_approx = Decimal(1) / one_over_pi (DivisionByZero is trapped)
Reciprocal(t) ==
    /\ pc[t] = "L47"
    /\ IF IsZero(frame[t].one_over_pi.int)
       THEN /\ pc' = [pc EXCEPT ![t] = "raised"]
            /\ result' = [result EXCEPT ![t] = Raised("DivisionByZero")]
            /\ UNCHANGED frame
       ELSE /\ pc' = [pc EXCEPT ![t] = "L50"]
            /\ frame' = [frame EXCEPT ![t].pi_approx =
                            DecDiv(DecOfNat(<<1>>), frame[t].one_over_pi, Prec(t))]
            /\ UNCHANGED result
    /\ used' = [used EXCEPT ![t] = @ \cup {Prec(t)}]
    /\ UNCHANGED <<ctx, precBefore, added, calls, history, mainVars>>

\* line 50: return pi_approx.quantize(Decimal('1e-{}'.format(precision)))
Quantize(t) ==
    /\ pc[t] = "L50"
    /\ LET e == DecimalOfText(QuantizeText(frame[t].precision))
           q == DecQuantize(frame[t].pi_approx, e.val, Prec(t))
       IN  IF ~e.ok \/ ~q.ok
           THEN /\ pc' = [pc EXCEPT ![t] = "raised"]
                /\ result' = [result EXCEPT ![t] = Raised("InvalidOperation")]
           ELSE /\ pc' = [pc EXCEPT ![t] = "returned"]
                /\ result' = [result EXCEPT ![t] = Returned(q.val)]
    /\ used' = [used EXCEPT ![t] = @ \cup {Prec(t)}]
    /\ UNCHANGED <<frame, ctx, precBefore, added, calls, history, mainVars>>

\* the steps of the body of calculate_pi_ramanujan
Body(t) ==
    \/ SetPrec(t)
    \/ SumInit(t)
    \/ ConstantMultiplier(t)
    \/ LoopNext(t)
    \/ Term(t)
    \/ OneOverPi(t)
    \/ Reciprocal(t)
    \/ Quantize(t)

(***************************************************************************)
(* Callers.                                                                *)
(***************************************************************************)
MaxIter == 3

MaxPrecision == 10

\* iteration counts and precisions below 1, which nothing in the function rejects
InvalidIterations == {-1, 0}

InvalidPrecisions == {-10, -1, 0}

Iterations == InvalidIterations \cup 1..MaxIter

Precisions == InvalidPrecisions \cup 1..MaxPrecision

\* a direct call of calculate_pi_ramanujan(it, p)
Call(t, it, p) ==
    /\ Enter(t, it, p)
    /\ UNCHANGED <<calls, history, mainVars>>

\* the caller takes the outcome; the frame is gone
Return(t) ==
    /\ pc[t] \in {"returned", "raised"}
    /\ pc' = [pc EXCEPT ![t] = "idle"]
    /\ frame' = [frame EXCEPT ![t] = EmptyFrame]
    /\ result' = [result EXCEPT ![t] = NoResult]
    /\ used' = [used EXCEPT ![t] = {}]
    /\ added' = [added EXCEPT ![t] = <<>>]
    /\ UNCHANGED <<ctx, precBefore, calls, history, mainVars>>

\* one thread calling the function again and again with any arguments
Next ==
    \/ \E it \in Iterations, p \in Precisions : Call(1, it, p)
    \/ Body(1)
    \/ Return(1)

Spec == Init /\ [][Next]_vars

\* calculate_pi_ramanujan(it, p) run alone in a context of its own: the value it
\* returns, composed of the same operations at the precision line 21 sets
RECURSIVE SumAlone(_, _, _, _)
SumAlone(r, i, acc, P) ==
    IF i > Len(r) THEN acc
    ELSE LET next == DecAdd(acc, TermLocals(r[i], P).current_term, P)
         IN  IF Evaluated(next) THEN SumAlone(r, i + 1, next, P) ELSE acc

Alone(it, p) ==
    LET P   == WorkingPrec(p)
        c   == DecDiv(DecMul(DecOfNat(<<2>>), DecSqrt(DecOfNat(<<2>>), P), P),
                      DecOfNat(<<9, 8, 0, 1>>), P)
        s   == SumAlone(Range(it), 1, DecOfNat(<<0>>), P)
        inv == DecMul(c, s, P)
        e   == DecimalOfText(QuantizeText(p))
        q   == DecQuantize(DecDiv(DecOfNat(<<1>>), inv, P), e.val, P)
    IN  IF P < 1 THEN Raised("ValueError")
        ELSE IF IsZero(inv.int) THEN Raised("DivisionByZero")
        ELSE IF ~e.ok \/ ~q.ok THEN Raised("InvalidOperation")
        ELSE Returned(q.val)

(***************************************************************************)
(* A caller that keeps what each call gave it, and threads that call       *)
(* concurrently.                                                           *)
(***************************************************************************)
MaxCalls == 3

HistIterations == {1, 2}

HistPrecisions == {1, MaxPrecision}

ConcMaxIter == 1

ConcMaxPrecision == 2

ConcIterations == 1..ConcMaxIter

ConcPrecisions == 1..ConcMaxPrecision

\* a direct call, at most max of them per thread
CallCounted(t, it, p, max) ==
    /\ calls[t] < max
    /\ Enter(t, it, p)
    /\ calls' = [calls EXCEPT ![t] = @ + 1]
    /\ UNCHANGED <<history, mainVars>>

\* the caller takes the outcome and keeps it with the arguments
ReturnRecorded(t) ==
    /\ pc[t] \in {"returned", "raised"}
    /\ history' = Append(history, [iterations |-> frame[t].iterations,
                                   precision  |-> frame[t].precision,
                                   result     |-> result[t]])
    /\ pc' = [pc EXCEPT ![t] = "idle"]
    /\ frame' = [frame EXCEPT ![t] = EmptyFrame]
    /\ result' = [result EXCEPT ![t] = NoResult]
    /\ used' = [used EXCEPT ![t] = {}]
    /\ added' = [added EXCEPT ![t] = <<>>]
    /\ UNCHANGED <<ctx, precBefore, calls, mainVars>>

\* one thread making MaxCalls calls with valid arguments, keeping every outcome
NextHist ==
    \/ \E it \in HistIterations, p \in HistPrecisions : CallCounted(1, it, p, MaxCalls)
    \/ Body(1)
    \/ ReturnRecorded(1)

SpecHist == Init /\ [][NextHist]_vars

\* every thread makes one call; the steps of the calls interleave
NextConc ==
    \E t \in Threads :
        \/ \E it \in ConcIterations, p \in ConcPrecisions : CallCounted(t, it, p, 1)
        \/ Body(t)

SpecConc == Init /\ [][NextConc]_vars

(***************************************************************************)
(* The __main__ block (lines 52-92), run by thread 1.                      *)
(***************************************************************************)
\* what input() can give: a line of text, or end of input (EOFError)
EndOfInput == <<"EOF">>

InputTexts ==
    { <<>>, <<"0">>, <<"1">>, <<"2">>, <<"0", "1">>, <<"-", "1">>, <<"+", "2">>,
      <<" ", "1">>, <<"2", " ">>, <<"1", " ", "2">>, <<"x">>, <<"1", ".", "5">>,
      <<"-", "-", "1">>, <<"-">> }

RECURSIVE StripLeft(_)
StripLeft(text) == IF Len(text) > 0 /\ text[1] = " " THEN StripLeft(Tail(text))
                   ELSE text

RECURSIVE StripRight(_)
StripRight(text) == IF Len(text) > 0 /\ text[Len(text)] = " "
                    THEN StripRight(SubSeq(text, 1, Len(text) - 1))
                    ELSE text

\* int(text): surrounding blanks are dropped, then an optional sign and one or
\* more digits; ok is FALSE where int raises ValueError (the texts here hold no
\* underscore)
ParseInt(text) ==
    LET body   == StripRight(StripLeft(text))
        signed == Len(body) > 0 /\ body[1] \in {"-", "+"}
        digs   == IF signed THEN Tail(body) ELSE body
    IN  IF ~AllDigits(digs) THEN [ok |-> FALSE, val |-> 0]
        ELSE [ok  |-> TRUE,
              val |-> IF signed /\ body[1] = "-" THEN -ValueOf(digs)
                      ELSE ValueOf(digs)]

\* (a variant that lets 0 through)
IterationsValidFromZero(n) == ~(n < 0)

\* the tests of lines 60 and 65, negated: the value may go on
IterationsValid(n) == ~(n < 1)

PrecisionValid(n) == ~(n < 1)

\* line 78: known_pi_str
known_pi_str ==
    <<"3", ".",
      "1", "4", "1", "5", "9", "2", "6", "5", "3", "5", "8", "9", "7", "9", "3", "2",
      "3", "8", "4", "6", "2", "6", "4", "3", "3", "8", "3", "2", "7", "9", "5", "0",
      "2", "8", "8", "4", "1", "9", "7", "1", "6", "9", "3", "9", "9", "3", "7", "5",
      "1", "0", "5", "8", "2", "0", "9", "7", "4", "9", "4", "4", "5", "9", "2", "3",
      "0", "7", "8", "1", "6", "4", "0", "6", "2", "8", "6", "2", "0", "8", "9", "9",
      "8", "6", "2", "8", "0", "3", "4", "8", "2", "5", "3", "4", "2", "1", "1", "7",
      "0", "6", "7", "9">>

\* Decimal(text) for a text of digits with one decimal point: exact
DecimalOfPointText(text) ==
    LET at   == CHOOSE i \in 1..Len(text) : text[i] = "."
        digs == SubSeq(text, 1, at - 1) \o SubSeq(text, at + 1, Len(text))
    IN  Dec(Strip([i \in 1..Len(digs) |-> DigitOf(digs[i])]), -(Len(text) - at))

\* lines 53-55: the banner
Banner ==
    /\ mpc = "L53"
    /\ out' = Append(out, "banner")
    /\ mpc' = "L59"
    /\ UNCHANGED <<pc, frame, ctx, result, precBefore, used, added, calls, history,
                   exc, line1, line2, num_iterations, desired_precision,
                   calculated_pi, known_pi, error>>

\* line 59: num_iterations = int(input(...))
AskIterations(text) ==
    /\ mpc = "L59"
    /\ out' = Append(out, "ask_iterations")
    /\ line1' = text
    /\ IF text = EndOfInput
       THEN mpc' = "except" /\ exc' = "EOFError" /\ UNCHANGED num_iterations
       ELSE IF ~ParseInt(text).ok
       THEN mpc' = "except" /\ exc' = "ValueError" /\ UNCHANGED num_iterations
       ELSE mpc' = "L60" /\ num_iterations' = ParseInt(text).val /\ UNCHANGED exc
    /\ UNCHANGED <<pc, frame, ctx, result, precBefore, used, added, calls, history,
                   line2, desired_precision, calculated_pi, known_pi, error>>

\* lines 60-62: a count below 1 is reported and exit() raises SystemExit
CheckIterations ==
    /\ mpc = "L60"
    /\ IF IterationsValid(num_iterations)
       THEN mpc' = "L64" /\ UNCHANGED <<out, exc>>
       ELSE /\ out' = Append(out, "iterations_invalid")
            /\ mpc' = "except"
            /\ exc' = "SystemExit"
    /\ UNCHANGED <<pc, frame, ctx, result, precBefore, used, added, calls, history,
                   line1, line2, num_iterations, desired_precision,
                   calculated_pi, known_pi, error>>

\* line 64: desired_precision = int(input(...))
AskPrecision(text) ==
    /\ mpc = "L64"
    /\ out' = Append(out, "ask_precision")
    /\ line2' = text
    /\ IF text = EndOfInput
       THEN mpc' = "except" /\ exc' = "EOFError" /\ UNCHANGED desired_precision
       ELSE IF ~ParseInt(text).ok
       THEN mpc' = "except" /\ exc' = "ValueError" /\ UNCHANGED desired_precision
       ELSE mpc' = "L65" /\ desired_precision' = ParseInt(text).val /\ UNCHANGED exc
    /\ UNCHANGED <<pc, frame, ctx, result, precBefore, used, added, calls, history,
                   line1, num_iterations, calculated_pi, known_pi, error>>

\* lines 65-67
CheckPrecision ==
    /\ mpc = "L65"
    /\ IF PrecisionValid(desired_precision)
       THEN mpc' = "L70" /\ UNCHANGED <<out, exc>>
       ELSE /\ out' = Append(out, "precision_invalid")
            /\ mpc' = "except"
            /\ exc' = "SystemExit"
    /\ UNCHANGED <<pc, frame, ctx, result, precBefore, used, added, calls, history,
                   line1, line2, num_iterations, desired_precision,
                   calculated_pi, known_pi, error>>

\* line 70: calculate_pi_ramanujan(num_iterations, desired_precision) is called
MainCall ==
    /\ mpc = "L70"
    /\ Enter(1, num_iterations, desired_precision)
    /\ calls' = [calls EXCEPT ![1] = @ + 1]
    /\ mpc' = "in_call"
    /\ UNCHANGED <<history, exc, line1, line2, num_iterations, desired_precision,
                   calculated_pi, known_pi, error, out>>

\* lines 70-87: the call is over; its value is printed with the known value and
\* the absolute error, or its exception goes to the handlers
Report ==
    /\ mpc = "in_call"
    /\ pc[1] \in {"returned", "raised"}
    /\ IF result[1].kind = "raise"
       THEN /\ mpc' = "except"
            /\ exc' = result[1].exc
            /\ UNCHANGED <<calculated_pi, known_pi, error, out>>
       ELSE LET known == DecimalOfPointText(
                            SubSeq(known_pi_str, 1,
                                   Min(Len(known_pi_str), desired_precision + 2)))
            IN  /\ calculated_pi' = result[1].val
                /\ known_pi' = known
                /\ error' = DecAbsDiff(result[1].val, known, Prec(1))
                /\ out' = out \o <<"results", "calculated_pi", "known_pi", "error">>
                /\ mpc' = "done"
                /\ UNCHANGED exc
    /\ pc' = [pc EXCEPT ![1] = "idle"]
    /\ UNCHANGED <<frame, ctx, result, precBefore, used, added, calls, history,
                   line1, line2, num_iterations, desired_precision>>

\* which except clause of lines 89-92 takes an exception: SystemExit is no
\* Exception and ends the program; nothing modelled goes uncaught ("traceback")
Handler(e) ==
    IF e = "ValueError" THEN "L90"
    ELSE IF e = "SystemExit" THEN "exited"
    ELSE "L92"

Except ==
    /\ mpc = "except"
    /\ mpc' = Handler(exc)
    /\ UNCHANGED <<pc, frame, ctx, result, precBefore, used, added, calls, history,
                   exc, line1, line2, num_iterations, desired_precision,
                   calculated_pi, known_pi, error, out>>

\* line 90
HandleValueError ==
    /\ mpc = "L90"
    /\ out' = Append(out, "invalid_input")
    /\ mpc' = "done"
    /\ exc' = ""
    /\ UNCHANGED <<pc, frame, ctx, result, precBefore, used, added, calls, history,
                   line1, line2, num_iterations, desired_precision,
                   calculated_pi, known_pi, error>>

\* line 92
HandleException ==
    /\ mpc = "L92"
    /\ out' = Append(out, "unexpected_error")
    /\ mpc' = "done"
    /\ exc' = ""
    /\ UNCHANGED <<pc, frame, ctx, result, precBefore, used, added, calls, history,
                   line1, line2, num_iterations, desired_precision,
                   calculated_pi, known_pi, error>>

NextMain ==
    \/ Banner
    \/ \E text \in InputTexts \cup {EndOfInput} : AskIterations(text)
    \/ CheckIterations
    \/ \E text \in InputTexts \cup {EndOfInput} : AskPrecision(text)
    \/ CheckPrecision
    \/ MainCall
    \/ Body(1)
    \/ Report
    \/ Except
    \/ HandleValueError
    \/ HandleException

SpecMain == Init /\ [][NextMain]_vars

(***************************************************************************)
(* The claims.                                                             *)
(***************************************************************************)
Finished(t) == pc[t] \in {"returned", "raised"}

ValidArgs(t) == frame[t].iterations >= 1 /\ frame[t].precision >= 1

\* C1 (as claimed): a direct call with iterations < 1 or precision < 1 never
\* returns a value.
C1_InvalidNeverReturns ==
    \A t \in Threads :
        (frame[t].iterations < 1 \/ frame[t].precision < 1) => pc[t] # "returned"

\* C2: for iterations >= 1 and precision >= 1 the call raises nothing and what
\* it returns has exponent -precision and a coefficient of precision + 1
\* digits, which fits the context's precision of precision + 10.
C2_ExactlyPrecisionDigits ==
    \A t \in Threads :
        ValidArgs(t) =>
            /\ pc[t] # "raised"
            /\ pc[t] = "returned" =>
                /\ result[t].kind = "value"
                /\ result[t].val.exp = -frame[t].precision
                /\ Len(result[t].val.int) = frame[t].precision + 1
                /\ Len(result[t].val.int) <= Prec(t)

C2_Witness ==
    /\ pc[1] = "returned"
    /\ frame[1].iterations = 2
    /\ frame[1].precision = 5
    /\ result[1].val.exp = -5

\* C3 (as claimed): when the call is over, the context's precision is what the
\* caller saw before the call.
C3_PrecisionRestored ==
    \A t \in Threads : Finished(t) => Prec(t) = precBefore[t]

\* C4: with two threads calling concurrently, every Decimal operation of a call
\* runs under that call's own precision + 10, and the call returns what it
\* returns when run alone.
C4_ConcurrentCallsIndependent ==
    \A t \in Threads :
        /\ used[t] \subseteq {frame[t].precision + 10}
        /\ Finished(t) => result[t] = Alone(frame[t].iterations, frame[t].precision)

C4_Witness ==
    /\ pc[1] = "L50"
    /\ pc[2] = "L50"
    /\ frame[1].precision # frame[2].precision
    /\ used[1] = {frame[1].precision + 10}
    /\ used[2] = {frame[2].precision + 10}

\* C5: two calls with the same valid arguments have the same outcome, whatever
\* calls came between them.
C5_Idempotent ==
    \A i, j \in DOMAIN history :
        (/\ history[i].iterations = history[j].iterations
         /\ history[i].precision = history[j].precision)
            => history[i].result = history[j].result

C5_Witness ==
    /\ Len(history) = 3
    /\ history[1].iterations = history[3].iterations
    /\ history[1].precision = history[3].precision
    /\ history[2].precision # history[1].precision
    /\ history[3].result.kind = "value"

ExactNumerator(k) == NMulSmall(Factorial(4 * k), 1103 + 26390 * k)

ExactFactorialPow(k) == NPow(Factorial(k), 4)

ExactPower(k) == NPow(<<3, 9, 6>>, 4 * k)

ExactDenominator(k) == NMul(ExactFactorialPow(k), ExactPower(k))

ValueDigits(d) == Shift(d.int, d.exp)

RECURSIVE SigDigits(_)
SigDigits(n) == IF Len(n) > 1 /\ n[Len(n)] = 0
                THEN SigDigits(SubSeq(n, 1, Len(n) - 1)) ELSE Len(n)

TermComputed(t) == pc[t] = "L30" /\ Len(added[t]) > 0 /\ frame[t].precision >= 1

\* C7 (as claimed): the numerator and the denominator that enter the division
\* are the exact integers (4k)!(1103 + 26390k) and (k!)^4 396^(4k).
C7_OperandsExact ==
    \A t \in Threads :
        TermComputed(t) =>
            /\ ValueDigits(frame[t].numerator_term) = ExactNumerator(frame[t].k)
            /\ ValueDigits(frame[t].denominator_term) = ExactDenominator(frame[t].k)

\* a Decimal holds the integer n if n has at most P significant digits, and
\* otherwise holds at most P digits, which are not n
RoundedTo(d, n, P) ==
    /\ Len(d.int) <= P
    /\ (SigDigits(n) <= P) = (ValueDigits(d) = n)

\* C7 (amended): the products and powers of a term are Decimal operations
\* rounded to precision + 10 significant digits: each is the exact integer
\* while that has at most precision + 10 significant digits, and a rounded
\* value of at most precision + 10 digits beyond that.
C7_OperandsRoundedToWorkingPrecision ==
    \A t \in Threads :
        TermComputed(t) =>
            LET k == frame[t].k
                P == frame[t].precision + 10
            IN  /\ RoundedTo(frame[t].numerator_term, ExactNumerator(k), P)
                /\ RoundedTo(frame[t].denominator_factorial_pow,
                             ExactFactorialPow(k), P)
                /\ RoundedTo(frame[t].denominator_power_term, ExactPower(k), P)
                /\ RoundedTo(frame[t].denominator_term, ExactDenominator(k), P)

C7_Witness ==
    /\ TermComputed(1)
    /\ frame[1].k = 2
    /\ frame[1].precision = 1
    /\ ValueDigits(frame[1].denominator_power_term) # ExactPower(2)
    /\ ValueDigits(frame[1].numerator_term) = ExactNumerator(2)

\* C8: no Decimal operation runs before line 21 has set the precision, and from
\* then to the final quantize the context's precision is precision + 10, the
\* precision every operation of the call runs under.
C8_WorkingPrecisionHeld ==
    \A t \in Threads :
        /\ pc[t] = "L21" => used[t] = {}
        /\ pc[t] \in {"L23", "L27", "L30", "L32", "L46", "L47", "L50"}
              => Prec(t) = frame[t].precision + 10
        /\ used[t] \subseteq {frame[t].precision + 10}

C8_Witness ==
    /\ pc[1] = "returned"
    /\ frame[1].precision = 3
    /\ precBefore[1] # 13
    /\ used[1] = {13}

\* C9: for iterations >= 1 the terms are added for k = 0, 1, ... in order, one
\* each; the loop is left when iterations of them are added; the sum starts at
\* 0; and the reciprocal is not formed before the loop is left.
C9_ExactlyIterationsTerms ==
    \A t \in Threads :
        frame[t].iterations >= 1 =>
            /\ \A i \in 1..Len(added[t]) : added[t][i] = i - 1
            /\ Len(added[t]) <= frame[t].iterations
            /\ pc[t] \in {"L46", "L47", "L50", "returned"}
                  => Len(added[t]) = frame[t].iterations
            /\ pc[t] \in {"L30", "L32"}
                  => /\ frame[t].one_over_pi = Unbound
                     /\ frame[t].pi_approx = Unbound
            /\ (pc[t] \in {"L27", "L30", "L32"} /\ added[t] = <<>>)
                  => frame[t].sum_val = Dec(<<0>>, 0)

C9_Witness ==
    /\ pc[1] = "L47"
    /\ frame[1].iterations = 3
    /\ added[1] = <<0, 1, 2>>

\* what was read at a prompt is an integer that is at least 1
Accepted(text) == text # EndOfInput /\ ParseInt(text).ok /\ ParseInt(text).val >= 1

Said(msg) == \E i \in 1..Len(out) : out[i] = msg

Ended == mpc \in {"done", "exited", "traceback"}

\* C10: the __main__ block calls the function only after both inputs were read
\* as integers of at least 1; a bad iteration count ends the program after one
\* message, the precision never asked for; a bad precision ends it after one
\* message; in both the function is not called, no result is printed and no
\* exception escapes.
C10_CallOnlyAfterValidation ==
    /\ (calls[1] > 0 \/ pc[1] # "idle")
          => Accepted(line1) /\ Accepted(line2) /\ Said("ask_precision")
    /\ (Ended /\ ~Accepted(line1))
          => /\ calls[1] = 0
             /\ Len(out) = 3
             /\ SubSeq(out, 1, 2) = <<"banner", "ask_iterations">>
             /\ out[3] \in {"iterations_invalid", "invalid_input", "unexpected_error"}
    /\ (Ended /\ Accepted(line1) /\ ~Accepted(line2))
          => /\ calls[1] = 0
             /\ Len(out) = 4
             /\ SubSeq(out, 1, 3) = <<"banner", "ask_iterations", "ask_precision">>
             /\ out[4] \in {"precision_invalid", "invalid_input", "unexpected_error"}
    /\ mpc # "traceback"

C10_Witness ==
    /\ mpc = "exited"
    /\ line1 = <<"2">>
    /\ line2 = <<"0">>
    /\ out[Len(out)] = "precision_invalid"

=============================================================================
